---- MODULE Spec2Model ----
(***************************************************************************)
(* Model of the SourceXtractorTools profiling scripts:                     *)
(*   PlotRunProfile.py  _parse_sourcex_logs, read_sourcex_logs,            *)
(*                      read_pidstat                                       *)
(*   RunProfiled.py     findHighestVersion, findInProjectArea, findBinary, *)
(*                      runProfiled, mainMethod                            *)
(* Three specifications share the module: SpecLog (the event-log reader),  *)
(* SpecPidstat (the resource-sample reader) and SpecRun (the process       *)
(* runner).                                                                *)
(*                                                                         *)
(* Conventions.  A Python value that may be None is a sequence of length   *)
(* at most one: None is << >> and the value x is << x >>.  A text line is  *)
(* the sequence of its whitespace-separated tokens, each token a string;   *)
(* int() and float() are modelled by what they do on the token's text.     *)
(* Times are whole seconds.                                                *)
(***************************************************************************)
EXTENDS Integers, Sequences, FiniteSets, TLC

VARIABLES
    \* ---- read_sourcex_logs / _parse_sourcex_logs
    file,            \* the lines of the log file, in file order
    pos,             \* number of lines of the file already read by the parser
    log,             \* _parse_sourcex_logs' dict: timestamp, message, Time
    idx,             \* number of (message, Time) pairs the main loop has consumed
    data,            \* read_sourcex_logs' result dict
    first,           \* local `first`
    deblending_max,  \* local `deblending_max`
    measured_max,    \* local `measured_max`
    segmented_max,   \* local `segmented_max`
    count,           \* local `count` (unbound until a branch assigns it)
    pc,              \* position in read_sourcex_logs
    \* ---- read_pidstat
    pfile,           \* the lines of the pidstat file
    ppos,            \* number of lines already read
    pdata,           \* dict column name -> list of values
    porder,          \* insertion order of pdata's keys
    keys,            \* local `keys` (column names of the last header read)
    reading_values,  \* local `reading_values`
    time_raw,        \* data['Time'] as read, before line 187 overwrites it
    ppc,             \* position in read_pidstat
    \* ---- RunProfiled.mainMethod
    env,             \* the file system, $PATH and the arguments (input)
    rpc,             \* position in mainMethod
    version,         \* findBinary's local `version`
    sourcextractor,  \* the value findBinary returns
    children,        \* child processes launched so far
    result           \* what mainMethod ended with

logvars == <<file, pos, log, idx, data, first, deblending_max, measured_max,
             segmented_max, count, pc>>
pidvars == <<pfile, ppos, pdata, porder, keys, reading_values, time_raw,
             ppc>>
runvars == <<env, rpc, version, sourcextractor, children, result>>
vars == <<logvars, pidvars, runvars>>

-----------------------------------------------------------------------------
(* Bounds of the model *)

MaxLines == 2        \* longest log file
MaxTs == 1           \* largest timestamp (seconds) on a log line
MaxCount == 2        \* largest count / line number reported in a message
MaxRows == 4         \* longest pidstat file

-----------------------------------------------------------------------------
(* Python's None, truthiness and conversions *)

None == << >>
Some(x) == << x >>
Val(o) == o[1]

\* `not x` for an Optional number: None and 0.0 are both falsy
IsFalsy(o) == o = None \/ o = Some(0)

\* the integer literals the logs of the model can hold
IntLiterals == 0 .. (MaxCount + 8)

\* int(text): the number when text is a decimal literal, None for ValueError
int(tok) ==
    IF \E n \in IntLiterals : ToString(n) = tok
    THEN Some(CHOOSE n \in IntLiterals : ToString(n) = tok)
    ELSE None

\* str.startswith on the token sequences of a message and of a prefix
StartsWith(m, prefix) ==
    /\ Len(m) >= Len(prefix)
    /\ SubSeq(m, 1, Len(prefix)) = prefix

-----------------------------------------------------------------------------
(* The log files of the model.  A line is its timestamp and the tokens of  *)
(* its message (the 5th field of split(maxsplit=4), split again); a line   *)
(* with fewer than 5 tokens has no message.                                *)

Timestamps == 0 .. MaxTs
Counts == 0 .. MaxCount

Messages ==
    {<<"thread-count", "=", "4">>, <<"thread-count", "=", "four">>,
     <<"tile-memory-limit", "=", "8">>,
     <<"Background", "for", "image", "0">>,
     <<"Elapsed">>}
    \cup {<<"Segmentation", ToString(n), "of", "9", "done">> : n \in Counts}
    \cup {<<"Segmentation", "done">>}
    \cup {<<"Detected", ToString(n), "sources">> : n \in Counts \ {0}}
    \cup {<<"Detected">>}
    \cup {<<"Measured", ToString(n), "sources">> : n \in Counts \ {0}}
    \cup {<<"Measured", ToString(n)>> : n \in Counts \ {0}}
    \cup {<<"Deblended", ToString(n)>> : n \in Counts}
    \cup {<<"Deblended", "1", "sources">>}

LogLines ==
    {[ts |-> t, msg |-> m] : t \in Timestamps, m \in Messages}
    \cup {[ts |-> 0, msg |-> << >>]}

LogFiles == UNION {[1 .. n -> LogLines] : n \in 0 .. MaxLines}

-----------------------------------------------------------------------------
(* _parse_sourcex_logs *)

EmptyLog == [timestamp |-> << >>, message |-> << >>, Time |-> << >>]

\* log['Time']: seconds between each timestamp and the first one
Elapsed(timestamps) ==
    [i \in 1 .. Len(timestamps) |-> timestamps[i] - timestamps[1]]

\* one iteration of `for line in fd`: a line that does not split into 5 fields
\* raises ValueError at the unpacking, which is caught and logged as a warning
\* (as is a timestamp the date parser rejects: such a line is skipped too)
ParseLine ==
    /\ pc = "parse"
    /\ pos < Len(file)
    /\ LET line == file[pos + 1] IN
           log' = IF line.msg = << >>
                  THEN log
                  ELSE [log EXCEPT !.timestamp = Append(@, line.ts),
                                   !.message = Append(@, line.msg)]
    /\ pos' = pos + 1
    /\ UNCHANGED <<file, idx, data, first, deblending_max, measured_max,
                   segmented_max, count, pc>>
    /\ UNCHANGED <<pidvars, runvars>>

\* after the loop: log['timestamp'][0] raises IndexError when no line was kept
ParseEnd ==
    /\ pc = "parse"
    /\ pos = Len(file)
    /\ IF log.timestamp = << >>
       THEN /\ pc' = "raised"
            /\ log' = log
       ELSE /\ pc' = "loop"
            /\ log' = [log EXCEPT !.Time = Elapsed(log.timestamp)]
    /\ UNCHANGED <<file, pos, idx, data, first, deblending_max, measured_max,
                   segmented_max, count>>
    /\ UNCHANGED <<pidvars, runvars>>

-----------------------------------------------------------------------------
(* read_sourcex_logs *)

EmptySeries == [time |-> << >>, values |-> << >>]

InitData ==
    [background |-> << >>,
     segmentation |-> <<None, None>>,
     deblending |-> <<None, None>>,
     measurement |-> <<None, None>>,
     duration |-> None,
     segmented |-> EmptySeries,
     detected |-> EmptySeries,
     deblended |-> EmptySeries,
     measured |-> EmptySeries,
     thread_count |-> None,
     tile_memory_limit |-> None]

\* series['count' or 'lines'].append(v); series['time'].append(t)
AppendSeries(series, t, v) ==
    [time |-> Append(series.time, t), values |-> Append(series.values, v)]

\* the message and the elapsed time the loop is at
LoopAt == pc = "loop" /\ idx < Len(log.message)
CurMsg == log.message[idx + 1]
CurTime == log.Time[idx + 1]

Raise ==
    /\ pc' = "raised"
    /\ UNCHANGED <<idx, data, first, deblending_max, measured_max,
                   segmented_max, count>>

\* int(m.split('=')[1].strip()): the text after '=' must be one integer literal
AfterEquals(m) ==
    IF Len(m) = 3 THEN int(m[3]) ELSE None

ThreadCount ==
    /\ LoopAt
    /\ StartsWith(CurMsg, <<"thread-count", "=">>)
    /\ LET n == AfterEquals(CurMsg) IN
           IF n = None THEN Raise
           ELSE /\ data' = [data EXCEPT !.thread_count = n]
                /\ idx' = idx + 1
                /\ UNCHANGED <<first, deblending_max, measured_max,
                               segmented_max, count, pc>>
    /\ UNCHANGED <<file, pos, log>>
    /\ UNCHANGED <<pidvars, runvars>>

TileMemoryLimit ==
    /\ LoopAt
    /\ StartsWith(CurMsg, <<"tile-memory-limit", "=">>)
    /\ LET n == AfterEquals(CurMsg) IN
           IF n = None THEN Raise
           ELSE /\ data' = [data EXCEPT !.tile_memory_limit = n]
                /\ idx' = idx + 1
                /\ UNCHANGED <<first, deblending_max, measured_max,
                               segmented_max, count, pc>>
    /\ UNCHANGED <<file, pos, log>>
    /\ UNCHANGED <<pidvars, runvars>>

Background ==
    /\ LoopAt
    /\ StartsWith(CurMsg, <<"Background", "for", "image">>)
    /\ data' = [data EXCEPT !.background = Append(@, CurTime)]
    /\ idx' = idx + 1
    /\ UNCHANGED <<file, pos, log, first, deblending_max, measured_max,
                   segmented_max, count, pc>>
    /\ UNCHANGED <<pidvars, runvars>>

\* lines 95-100: the interval and the high-watermark after a report of `line`
SegmentationUpdate(seg, smax, line, t) ==
    IF line > 0 /\ seg[1] = None
    THEN [interval |-> <<Some(t), seg[2]>>, max |-> smax]
    ELSE IF line > smax
         THEN [interval |-> <<seg[1], Some(t)>>, max |-> line]
         ELSE [interval |-> seg, max |-> smax]

Segmentation ==
    /\ LoopAt
    /\ StartsWith(CurMsg, <<"Segmentation">>)
    /\ IF Len(CurMsg) # 5 \/ int(CurMsg[2]) = None
       THEN Raise
       ELSE LET line == Val(int(CurMsg[2]))
                u == SegmentationUpdate(data.segmentation, segmented_max,
                                        line, CurTime)
            IN  /\ data' = [data EXCEPT
                              !.segmentation = u.interval,
                              !.segmented = AppendSeries(@, CurTime, line)]
                /\ segmented_max' = u.max
                /\ idx' = idx + 1
                /\ UNCHANGED <<first, deblending_max, measured_max, count, pc>>
    /\ UNCHANGED <<file, pos, log>>
    /\ UNCHANGED <<pidvars, runvars>>

Detected ==
    /\ LoopAt
    /\ StartsWith(CurMsg, <<"Detected">>)
    /\ IF Len(CurMsg) < 2 \/ int(CurMsg[2]) = None
       THEN Raise
       ELSE LET c == Val(int(CurMsg[2])) IN
                /\ count' = Some(c)
                /\ data' = [data EXCEPT
                              !.detected = AppendSeries(@, CurTime, c)]
                /\ idx' = idx + 1
                /\ UNCHANGED <<first, deblending_max, measured_max,
                               segmented_max, pc>>
    /\ UNCHANGED <<file, pos, log>>
    /\ UNCHANGED <<pidvars, runvars>>

\* lines 115-119
MeasurementUpdate(meas, mmax, c, t) ==
    LET start == IF meas[1] = None THEN Some(t) ELSE meas[1] IN
        IF c > mmax
        THEN [interval |-> <<start, Some(t)>>, max |-> c]
        ELSE [interval |-> <<start, meas[2]>>, max |-> mmax]

\* lines 112-114 and 120: the value of `count` that line 120 appends; it is
\* assigned only when the message has more than 2 tokens
MeasuredCount(aux, cnt) ==
    IF Len(aux) > 2 THEN int(aux[2]) ELSE cnt

Measured ==
    /\ LoopAt
    /\ StartsWith(CurMsg, <<"Measured">>)
    /\ LET aux == CurMsg
           c == MeasuredCount(aux, count)
       IN  IF c = None
           THEN Raise  \* ValueError of int(), or `count` read while unbound
           ELSE LET u == IF Len(aux) > 2
                         THEN MeasurementUpdate(data.measurement, measured_max,
                                                Val(c), CurTime)
                         ELSE [interval |-> data.measurement,
                               max |-> measured_max]
                IN  /\ count' = c
                    /\ data' = [data EXCEPT
                                  !.measurement = u.interval,
                                  !.measured = AppendSeries(@, CurTime, Val(c))]
                    /\ measured_max' = u.max
                    /\ idx' = idx + 1
                    /\ UNCHANGED <<first, deblending_max, segmented_max, pc>>
    /\ UNCHANGED <<file, pos, log>>
    /\ UNCHANGED <<pidvars, runvars>>

\* DeblendingUpdate with `count >= deblending_max` in place of `>`
DeblendingUpdate_AtLeast(deb, dmax, c, t) ==
    IF c >= dmax
    THEN [interval |-> <<IF dmax = 0 THEN Some(t) ELSE deb[1], Some(t)>>,
          max |-> c]
    ELSE [interval |-> deb, max |-> dmax]

\* lines 128-132
DeblendingUpdate(deb, dmax, c, t) ==
    IF c > dmax
    THEN [interval |-> <<IF dmax = 0 THEN Some(t) ELSE deb[1], Some(t)>>,
          max |-> c]
    ELSE [interval |-> deb, max |-> dmax]

\* DeblendedAppend that drops a count lower than the last one recorded
DeblendedAppend_Discard(series, t, c) ==
    IF series.values # << >> /\ c < series.values[Len(series.values)]
    THEN series
    ELSE AppendSeries(series, t, c)

\* lines 133-134
DeblendedAppend(series, t, c) == AppendSeries(series, t, c)

Deblended ==
    /\ LoopAt
    /\ StartsWith(CurMsg, <<"Deblended">>)
    /\ IF Len(CurMsg) # 2 \/ int(CurMsg[2]) = None
       THEN Raise
       ELSE LET c == Val(int(CurMsg[2]))
                u == DeblendingUpdate(data.deblending, deblending_max, c,
                                      CurTime)
            IN  /\ count' = Some(c)
                /\ data' = [data EXCEPT
                              !.deblending = u.interval,
                              !.deblended = DeblendedAppend(@, CurTime, c)]
                /\ deblending_max' = u.max
                /\ idx' = idx + 1
                /\ UNCHANGED <<first, measured_max, segmented_max, pc>>
    /\ UNCHANGED <<file, pos, log>>
    /\ UNCHANGED <<pidvars, runvars>>

Prefixes ==
    {<<"thread-count", "=">>, <<"tile-memory-limit", "=">>,
     <<"Background", "for", "image">>, <<"Segmentation">>, <<"Detected">>,
     <<"Measured">>, <<"Deblended">>}

\* lines 135-138: a message no branch recognises
Unmatched ==
    /\ LoopAt
    /\ \A p \in Prefixes : ~StartsWith(CurMsg, p)
    /\ IF first = None
       THEN /\ first' = Some(CurTime)
            /\ data' = data
       ELSE /\ first' = first
            /\ data' = [data EXCEPT !.duration = Some(CurTime - Val(first))]
    /\ idx' = idx + 1
    /\ UNCHANGED <<file, pos, log, deblending_max, measured_max,
                   segmented_max, count, pc>>
    /\ UNCHANGED <<pidvars, runvars>>

\* lines 140-141: `if not data['segmentation'][1]`
PostPass(d) ==
    IF IsFalsy(d.segmentation[2])
    THEN [d EXCEPT !.segmentation = <<d.segmentation[1], d.deblending[2]>>]
    ELSE d

LoopDone == pc = "loop" /\ idx = Len(log.message)

Return ==
    /\ LoopDone
    /\ data' = PostPass(data)
    /\ pc' = "returned"
    /\ UNCHANGED <<file, pos, log, idx, first, deblending_max, measured_max,
                   segmented_max, count>>
    /\ UNCHANGED <<pidvars, runvars>>

PidIdle ==
    /\ pfile = << >> /\ ppos = 0 /\ pdata = << >> /\ porder = << >>
    /\ keys = << >> /\ reading_values = FALSE /\ time_raw = << >>
    /\ ppc = "idle"

RunIdle ==
    /\ env = << >> /\ rpc = "idle" /\ version = None
    /\ sourcextractor = None /\ children = {} /\ result = "none"

LogStart(f) ==
    /\ file = f /\ pos = 0 /\ log = EmptyLog /\ idx = 0 /\ data = InitData
    /\ first = None /\ deblending_max = 0 /\ measured_max = 0
    /\ segmented_max = 0 /\ count = None /\ pc = "parse"

InitLog == (\E f \in LogFiles : LogStart(f)) /\ PidIdle /\ RunIdle

NextLog ==
    \/ ParseLine
    \/ ParseEnd
    \/ ThreadCount
    \/ TileMemoryLimit
    \/ Background
    \/ Segmentation
    \/ Detected
    \/ Measured
    \/ Deblended
    \/ Unmatched
    \/ Return

SpecLog == InitLog /\ [][NextLog]_vars

-----------------------------------------------------------------------------
(* Properties of read_sourcex_logs.  They are stated over the parsed log   *)
(* (log.message, log.Time) and the number idx of messages consumed.        *)

SegmentationPrefix == <<"Segmentation">>
DetectedPrefix == <<"Detected">>
MeasuredPrefix == <<"Measured">>
DeblendedPrefix == <<"Deblended">>

\* the consumed messages that start with a prefix
MatchIdx(prefix, n) == {i \in 1 .. n : StartsWith(log.message[i], prefix)}

\* the integer written on message i, right after the prefix word
NumberOn(i) == Val(int(log.message[i][2]))

\* elapsed times, and numbers, of the matching messages among the first n
RECURSIVE TimesOf(_, _)
TimesOf(prefix, n) ==
    IF n = 0 THEN << >>
    ELSE IF StartsWith(log.message[n], prefix)
         THEN Append(TimesOf(prefix, n - 1), log.Time[n])
         ELSE TimesOf(prefix, n - 1)

RECURSIVE NumbersOf(_, _)
NumbersOf(prefix, n) ==
    IF n = 0 THEN << >>
    ELSE IF StartsWith(log.message[n], prefix)
         THEN Append(NumbersOf(prefix, n - 1), NumberOn(n))
         ELSE NumbersOf(prefix, n - 1)

SetMin(S) == CHOOSE x \in S : \A y \in S : x <= y
SetMax(S) == CHOOSE x \in S : \A y \in S : x >= y

NonDecreasing(s) == \A k \in 1 .. Len(s) - 1 : s[k] <= s[k + 1]

\* the earliest of the messages I that carries the largest number of I
EarliestOfMax(I) ==
    LET mx == SetMax({NumberOn(i) : i \in I}) IN
        SetMin({i \in I : NumberOn(i) = mx})

Ordered(interval) ==
    interval[1] # None /\ interval[2] # None
        => Val(interval[2]) >= Val(interval[1])

\* C1 as stated: every returned count series (detected, deblended, measured)
\* is non-decreasing, a lower count being discarded instead of appended.
C1_CountSeriesNonDecreasing ==
    pc = "returned" =>
        /\ NonDecreasing(data.detected.values)
        /\ NonDecreasing(data.deblended.values)
        /\ NonDecreasing(data.measured.values)

\* C1 as amended: nothing is discarded.  The detected and deblended series
\* hold the count of every matching line read so far, in file order, a count
\* lower than an earlier one included, and the measured series has one entry
\* per matching line.
C1_EveryCountRecorded ==
    /\ data.detected.values = NumbersOf(DetectedPrefix, idx)
    /\ data.deblended.values = NumbersOf(DeblendedPrefix, idx)
    /\ Len(data.measured.values) = Cardinality(MatchIdx(MeasuredPrefix, idx))

\* a returned deblended series in which a count is lower than the one before
C1_Witness ==
    /\ pc = "returned"
    /\ \E k \in 1 .. Len(data.deblended.values) - 1 :
           data.deblended.values[k + 1] < data.deblended.values[k]

\* C2: for a log in chronological order, each of the returned intervals
\* segmentation, deblending and measurement has end >= start when both are
\* set.
C2_IntervalsOrdered ==
    pc = "returned" /\ NonDecreasing(log.timestamp) =>
        /\ Ordered(data.segmentation)
        /\ Ordered(data.deblending)
        /\ Ordered(data.measurement)

\* C5: read_sourcex_logs never ends in an error, whatever the lines are.
C5_NeverRaises == pc # "raised"

\* C6: each returned series has one entry per matching line, in file order,
\* holding that line's elapsed time and the integer written on that line.
C6_SeriesMirrorLines ==
    pc = "returned" =>
        /\ data.segmented = [time |-> TimesOf(SegmentationPrefix, idx),
                             values |-> NumbersOf(SegmentationPrefix, idx)]
        /\ data.detected = [time |-> TimesOf(DetectedPrefix, idx),
                            values |-> NumbersOf(DetectedPrefix, idx)]
        /\ data.measured = [time |-> TimesOf(MeasuredPrefix, idx),
                            values |-> NumbersOf(MeasuredPrefix, idx)]
        /\ data.deblended = [time |-> TimesOf(DeblendedPrefix, idx),
                             values |-> NumbersOf(DeblendedPrefix, idx)]

\* C8: after any number of 'Deblended N' lines, deblending start is the elapsed
\* time of the first line with N > 0 and deblending end that of the earliest
\* line carrying the largest N; lines that do not exceed the running maximum
\* move neither.
C8_DeblendingInterval ==
    LET D == MatchIdx(DeblendedPrefix, idx)
        P == {i \in D : NumberOn(i) > 0}
    IN  data.deblending =
            IF P = {} THEN <<None, None>>
            ELSE <<Some(log.Time[SetMin(P)]), Some(log.Time[EarliestOfMax(D)])>>

\* a returned summary where a later Deblended line, at another time, repeats
\* or stays below the count of the line that set deblending end
C8_Witness ==
    /\ pc = "returned"
    /\ \E i, j \in MatchIdx(DeblendedPrefix, idx) :
           /\ i < j
           /\ NumberOn(i) > 0
           /\ NumberOn(j) <= NumberOn(i)
           /\ log.Time[j] # log.Time[i]
           /\ data.deblending[2] = Some(log.Time[i])

\* C9: before the post-pass, segmentation end is the elapsed time of the
\* earliest Segmentation line that carries the largest <line> of the log, when
\* that largest <line> is above 0 (the line that sets the start included).
C9_SegmentationEnd ==
    LET S == MatchIdx(SegmentationPrefix, idx) IN
        LoopDone /\ S # {} /\ NumberOn(EarliestOfMax(S)) > 0 =>
            data.segmentation[2] = Some(log.Time[EarliestOfMax(S)])

\* C10: the post-pass leaves a segmentation end that was set during the pass
\* (0.0 included) unchanged.
C10_PostPassKeepsEnd ==
    [][LoopDone /\ pc' = "returned" /\ data.segmentation[2] # None
           => data'.segmentation[2] = data.segmentation[2]]_vars

-----------------------------------------------------------------------------
(* The pidstat files of the model.  A line is a header ('#' first) or not, *)
(* and the sequence of its words.  A token of a value line is a sequence   *)
(* of words: one word, or a clock time and its AM/PM suffix.               *)

Day == 86400
ncores == 32

\* raw 'Time' values: around midnight, and a jump back of more than a day
RawTimes == {0, 1, Day - 1, Day + 1}

\* the numeric literals the pidstat files of the model can hold
FloatLiterals == RawTimes \cup {7, 50}

\* float(text): the number for a numeric literal, None for ValueError
float(word) ==
    IF \E n \in FloatLiterals : ToString(n) = word
    THEN Some(CHOOSE n \in FloatLiterals : ToString(n) = word)
    ELSE None

\* dateutil's parse() of a clock time, as seconds since midnight; mktime adds
\* the epoch of the day's midnight, the same for every row, which np.diff
\* cancels.  None for text parse() rejects (ValueError).
ClockSeconds(tok) ==
    IF tok = <<"11:59:59", "PM">> THEN Some(Day - 1)
    ELSE IF tok = <<"12:00:01", "AM">> THEN Some(1)
    ELSE None

\* parse_time
parse_time(tok) ==
    IF Len(tok) = 1 /\ float(tok[1]) # None THEN float(tok[1])
    ELSE ClockSeconds(tok)

Headers == {<<"Time", "%CPU">>, <<"Time", "%CPU", "RSS">>}

ValueLines ==
    {<<ToString(t), "50">> : t \in RawTimes}
    \cup {<<"1", "50", "7">>, <<"1", "R">>, <<"1">>, << >>,
          <<"11:59:59", "PM", "50">>, <<"12:00:01", "AM", "50">>}

PidLines ==
    {[hdr |-> TRUE, words |-> h] : h \in Headers}
    \cup {[hdr |-> FALSE, words |-> w] : w \in ValueLines}

PidFiles == UNION {[1 .. n -> PidLines] : n \in 0 .. MaxRows}

\* a value of a column: a float, or the raw text float() rejected
Num(n) == [num |-> n]
Raw(tok) == [raw |-> tok]
IsNum(v) == "num" \in DOMAIN v

\* line 172-173: ' AM' and ' PM' are glued to the word before them, then the
\* line is split; the '_' is turned back into a space for the Time column
RECURSIVE SplitValues(_)
SplitValues(words) ==
    IF words = << >> THEN << >>
    ELSE IF Len(words) >= 2 /\ words[2] \in {"AM", "PM"}
         THEN <<SubSeq(words, 1, 2)>> \o SplitValues(SubSeq(words, 3, Len(words)))
         ELSE <<SubSeq(words, 1, 1)>> \o SplitValues(Tail(words))

\* lines 175-181: the value stored for token v of column k
Convert(k, v) ==
    LET f == IF k = "Time" THEN parse_time(v)
             ELSE IF Len(v) = 1 THEN float(v[1]) ELSE None
    IN  IF f = None THEN Raw(v) ELSE Num(Val(f))

\* lines 167-169: register the column names not seen before
RECURSIVE Register(_, _, _)
Register(d, order, ks) ==
    IF ks = << >> THEN [data |-> d, order |-> order]
    ELSE IF Head(ks) \in DOMAIN d
         THEN Register(d, order, Tail(ks))
         ELSE Register(d @@ (Head(ks) :> << >>), Append(order, Head(ks)),
                       Tail(ks))

\* lines 174-181: zip(keys, values) appends to the columns of `keys`
RECURSIVE AppendRow(_, _, _)
AppendRow(d, ks, values) ==
    IF ks = << >> \/ values = << >> THEN d
    ELSE AppendRow([d EXCEPT ![Head(ks)] = Append(@, Convert(Head(ks), Head(values)))],
                   Tail(ks), Tail(values))

PidAt == ppc = "read" /\ ppos < Len(pfile)
PidLine == pfile[ppos + 1]

ReadHeader ==
    /\ PidAt
    /\ PidLine.hdr
    /\ LET r == Register(pdata, porder, PidLine.words) IN
           /\ pdata' = r.data
           /\ porder' = r.order
    /\ keys' = PidLine.words
    /\ reading_values' = TRUE
    /\ ppos' = ppos + 1
    /\ UNCHANGED <<pfile, time_raw, ppc>>
    /\ UNCHANGED <<logvars, runvars>>

ReadValues ==
    /\ PidAt
    /\ ~PidLine.hdr
    /\ reading_values
    /\ pdata' = AppendRow(pdata, keys, SplitValues(PidLine.words))
    /\ ppos' = ppos + 1
    /\ UNCHANGED <<pfile, porder, keys, reading_values, time_raw, ppc>>
    /\ UNCHANGED <<logvars, runvars>>

\* a line before the first header is neither a header nor read as values
SkipLine ==
    /\ PidAt
    /\ ~PidLine.hdr
    /\ ~reading_values
    /\ ppos' = ppos + 1
    /\ UNCHANGED <<pfile, pdata, porder, keys, reading_values, time_raw, ppc>>
    /\ UNCHANGED <<logvars, runvars>>

\* WrapCorrect without the 24-hour correction
WrapCorrect_Off(d) == d

\* line 186
WrapCorrect(d) == IF d < 0 THEN 24 * 60 * 60 + d ELSE d

\* line 185: np.diff(t, prepend=t[0])
Diff(t) == [i \in 1 .. Len(t) |-> IF i = 1 THEN 0 ELSE t[i] - t[i - 1]]

\* line 187: np.cumsum
RECURSIVE CumSum(_)
CumSum(d) ==
    IF d = << >> THEN << >>
    ELSE LET front == CumSum(SubSeq(d, 1, Len(d) - 1)) IN
             Append(front, d[Len(d)] + (IF front = << >> THEN 0
                                         ELSE front[Len(front)]))

\* lines 185-187
CorrectedTime(t) ==
    CumSum([i \in 1 .. Len(t) |-> WrapCorrect(Diff(t)[i])])

AllNum(col) == \A i \in 1 .. Len(col) : IsNum(col[i])
Nums(col) == [i \in 1 .. Len(col) |-> col[i].num]

\* lines 182-189.  KeyError for a missing 'Time' or '%CPU' column, IndexError
\* for data['Time'][0] of an empty column, a numpy TypeError for arithmetic on
\* a column that holds text.  CPU is kept in hundredths of a core.
Finish ==
    /\ ppc = "read"
    /\ ppos = Len(pfile)
    /\ IF /\ "Time" \in DOMAIN pdata
          /\ pdata["Time"] # << >>
          /\ AllNum(pdata["Time"])
          /\ "%CPU" \in DOMAIN pdata
          /\ AllNum(pdata["%CPU"])
       THEN /\ time_raw' = Nums(pdata["Time"])
            /\ LET d1 == [pdata EXCEPT
                            !["Time"] = CorrectedTime(Nums(pdata["Time"]))]
                   cpu == [i \in 1 .. Len(pdata["%CPU"]) |->
                              pdata["%CPU"][i].num * ncores]
               IN  pdata' = [k \in DOMAIN d1 \cup {"CPU"} |->
                                IF k = "CPU" THEN cpu ELSE d1[k]]
            /\ porder' = IF "CPU" \in DOMAIN pdata THEN porder
                         ELSE Append(porder, "CPU")
            /\ ppc' = "returned"
       ELSE /\ ppc' = "raised"
            /\ UNCHANGED <<pdata, porder, time_raw>>
    /\ UNCHANGED <<pfile, ppos, keys, reading_values>>
    /\ UNCHANGED <<logvars, runvars>>

LogIdle ==
    /\ file = << >> /\ pos = 0 /\ log = EmptyLog /\ idx = 0 /\ data = InitData
    /\ first = None /\ deblending_max = 0 /\ measured_max = 0
    /\ segmented_max = 0 /\ count = None /\ pc = "idle"

InitPidstat ==
    /\ pfile \in PidFiles
    /\ ppos = 0 /\ pdata = << >> /\ porder = << >> /\ keys = << >>
    /\ reading_values = FALSE /\ time_raw = << >> /\ ppc = "read"
    /\ LogIdle /\ RunIdle

NextPidstat ==
    \/ ReadHeader
    \/ ReadValues
    \/ SkipLine
    \/ Finish

SpecPidstat == InitPidstat /\ [][NextPidstat]_vars

-----------------------------------------------------------------------------
(* Properties of read_pidstat *)

\* the value rows of the file: the lines after the first header that are not
\* headers and hold at least one word
ValueRows ==
    {i \in 1 .. Len(pfile) :
        /\ ~pfile[i].hdr
        /\ pfile[i].words # << >>
        /\ \E j \in 1 .. i - 1 : pfile[j].hdr}

StartsAtZeroNonDecreasing(t) == t[1] = 0 /\ NonDecreasing(t)

\* no raw value is more than a day before the raw value of the row above
JumpsWithinADay(raw) ==
    \A i \in 1 .. Len(raw) - 1 : raw[i] - raw[i + 1] <= Day

\* C3 as stated: the returned 'Time' series starts at 0 and is non-decreasing,
\* whatever the size of a backward jump in the raw values.
C3_TimeNonDecreasing ==
    ppc = "returned" => StartsAtZeroNonDecreasing(pdata["Time"])

\* C3 as amended: the returned 'Time' series starts at 0 and is non-decreasing
\* when no raw value is more than 86400 seconds before the one above it.
C3_TimeNonDecreasingWithinADay ==
    ppc = "returned" /\ JumpsWithinADay(time_raw)
        => StartsAtZeroNonDecreasing(pdata["Time"])

\* a returned series whose raw values went backward, by no more than a day
C3_Witness ==
    /\ ppc = "returned"
    /\ JumpsWithinADay(time_raw)
    /\ \E i \in 1 .. Len(time_raw) - 1 : time_raw[i + 1] < time_raw[i]

\* the header a value row stands under
HeaderAbove(i) ==
    pfile[SetMax({j \in 1 .. i - 1 : pfile[j].hdr})].words

\* every value row has one token per column of the header above it
FullRows ==
    \A i \in ValueRows :
        Len(SplitValues(pfile[i].words)) = Len(HeaderAbove(i))

\* C4: for a file of full rows, also one where a repeated header names new
\* columns, every column of the result has the same length, the number of
\* value rows of all header blocks.
C4_ColumnsEqualLength ==
    ppc = "returned" /\ FullRows =>
        \A k \in DOMAIN pdata : Len(pdata[k]) = Cardinality(ValueRows)

-----------------------------------------------------------------------------
(* RunProfiled.py.  The input `env` holds the arguments and what the       *)
(* process finds around it:                                                *)
(*   use_version   --use-version (None when not given)                     *)
(*   dirs          the folders that exist under the project area           *)
(*   run_script    the version folder holds build.<tag>/run                *)
(*   run_ok        `run --py` exits with status 0                          *)
(*   on_path       which('sourcextractor++') finds the binary              *)
(*   bin_exists    the binary of the project area can be executed          *)
(*   pidstat_ok    pidstat can be executed                                 *)
(*   files         which of the log and pidstat output files exist         *)

defaults == <<"SourceXtractorPlusPlus", "develop", "master">>

Versions == {"SourceXtractorPlusPlus", "develop", "master", "1.0"}

Envs ==
    [use_version : {None, Some("1.0")},
     dirs : SUBSET Versions,
     run_script : BOOLEAN,
     run_ok : BOOLEAN,
     on_path : BOOLEAN,
     bin_exists : BOOLEAN,
     pidstat_ok : BOOLEAN,
     files : SUBSET {"log", "pidstat"}]

\* findHighestVersion: the first default folder that exists, else None
findHighestVersion(e) ==
    IF \E i \in 1 .. Len(defaults) : defaults[i] \in e.dirs
    THEN Some(defaults[CHOOSE i \in 1 .. Len(defaults) :
                  /\ defaults[i] \in e.dirs
                  /\ \A j \in 1 .. i - 1 : defaults[j] \notin e.dirs])
    ELSE None

\* which('sourcextractor++')
which(e) == IF e.on_path THEN Some("PATH") ELSE None

\* line 54: os.path.exists(run_script)
RunScriptExists(e, v) == v \in e.dirs /\ e.run_script

\* `if not sourcextractor` on the list findBinary returns
IsEmptyList(l) == Len(l) = 0

\* findBinary with findHighestVersion and findInProjectArea.  os.path.join
\* raises TypeError for a version of None; subprocess.run(check=True) raises
\* CalledProcessError when the run script fails.
FindBinary ==
    /\ rpc = "findBinary"
    /\ LET v == IF env.use_version = None THEN findHighestVersion(env)
                ELSE env.use_version
       IN  /\ version' = v
           /\ IF v = None
              THEN /\ rpc' = "raised"
                   /\ result' = "TypeError"
                   /\ UNCHANGED sourcextractor
              ELSE IF ~RunScriptExists(env, Val(v))
                   THEN /\ sourcextractor' = <<which(env), "{}">>
                        /\ rpc' = "check"
                        /\ UNCHANGED result
                   ELSE IF ~env.run_ok
                        THEN /\ rpc' = "raised"
                             /\ result' = "CalledProcessError"
                             /\ UNCHANGED sourcextractor
                        ELSE /\ sourcextractor' = <<Some("project"), "env">>
                             /\ rpc' = "check"
                             /\ UNCHANGED result
    /\ UNCHANGED <<env, children>>
    /\ UNCHANGED <<logvars, pidvars>>

\* mainMethod lines 142-146
CheckFound ==
    /\ rpc = "check"
    /\ IF IsEmptyList(sourcextractor)
       THEN /\ rpc' = "returned"
            /\ result' = "NOT_OK"
       ELSE /\ rpc' = "unlink"
            /\ UNCHANGED result
    /\ UNCHANGED <<env, version, sourcextractor, children>>
    /\ UNCHANGED <<logvars, pidvars>>

\* runProfiled lines 83-86
Unlink ==
    /\ rpc = "unlink"
    /\ env' = [env EXCEPT !.files = {}]
    /\ rpc' = "popen"
    /\ UNCHANGED <<version, sourcextractor, children, result>>
    /\ UNCHANGED <<logvars, pidvars>>

\* runProfiled lines 88-91: Popen raises TypeError for a program of None and
\* FileNotFoundError for one that does not exist
LaunchSourcextractor ==
    /\ rpc = "popen"
    /\ LET sourcex_bin == sourcextractor[1] IN
           IF sourcex_bin = None
           THEN /\ rpc' = "raised"
                /\ result' = "TypeError"
                /\ UNCHANGED children
           ELSE IF sourcex_bin = Some("project") /\ ~env.bin_exists
                THEN /\ rpc' = "raised"
                     /\ result' = "FileNotFoundError"
                     /\ UNCHANGED children
                ELSE /\ children' = children \cup {"sourcextractor++"}
                     /\ rpc' = "pidstat"
                     /\ UNCHANGED result
    /\ UNCHANGED <<env, version, sourcextractor>>
    /\ UNCHANGED <<logvars, pidvars>>

\* runProfiled lines 97-100
AttachPidstat ==
    /\ rpc = "pidstat"
    /\ env' = [env EXCEPT !.files = @ \cup {"pidstat"}]
    /\ IF env.pidstat_ok
       THEN /\ children' = children \cup {"pidstat"}
            /\ rpc' = "wait"
            /\ UNCHANGED result
       ELSE /\ rpc' = "raised"
            /\ result' = "FileNotFoundError"
            /\ UNCHANGED children
    /\ UNCHANGED <<version, sourcextractor>>
    /\ UNCHANGED <<logvars, pidvars>>

\* runProfiled lines 101-102, then mainMethod falls off its end
WaitAndTerminate ==
    /\ rpc = "wait"
    /\ rpc' = "returned"
    /\ result' = "None"
    /\ UNCHANGED <<env, version, sourcextractor, children>>
    /\ UNCHANGED <<logvars, pidvars>>

InitRun ==
    /\ env \in Envs
    /\ rpc = "findBinary" /\ version = None /\ sourcextractor = None
    /\ children = {} /\ result = "none"
    /\ LogIdle /\ PidIdle

NextRun ==
    \/ FindBinary
    \/ CheckFound
    \/ Unlink
    \/ LaunchSourcextractor
    \/ AttachPidstat
    \/ WaitAndTerminate

SpecRun == InitRun /\ [][NextRun]_vars

-----------------------------------------------------------------------------
(* Properties of RunProfiled.mainMethod *)

\* the binary is in the project area: the version folder (the one asked for,
\* else the first default folder) exists and holds a run script
InProjectArea(e) ==
    LET v == IF e.use_version # None THEN e.use_version
             ELSE findHighestVersion(e)
    IN  v # None /\ Val(v) \in e.dirs /\ e.run_script

NotFound(e) == ~InProjectArea(e) /\ ~e.on_path

\* C7: when the binary is found neither in the project area nor on $PATH,
\* mainMethod ends by returning NOT_OK and no child process was launched.
C7_NotFoundReturnsNotOk ==
    NotFound(env) /\ rpc \in {"returned", "raised"}
        => result = "NOT_OK" /\ children = {}

====
